---------------------------- MODULE Spec2Model ----------------------------
(***************************************************************************)
(* TolimaGO REST API: booking lifecycle, placeholder authentication,      *)
(* user routes and review constraints, modelled from the TypeScript       *)
(* sources (Mongoose models, services, controllers, routers).             *)
(*                                                                         *)
(* Time is counted in whole hours.  Strings that the code splits or       *)
(* concatenates are tuples of symbols, so that split('_') is computed.    *)
(***************************************************************************)
EXTENDS Integers, Sequences, FiniteSets, TLC

VARIABLES
    now,        \* the clock read by new Date() / Date.now(), in hours
    bookings,   \* the bookings collection, in insertion order
    bookingOp,  \* the last call made on a booking and its outcome
    users,      \* the users collection, in insertion order; _id is the position
    secrets,    \* per user, the password its owner last chose, and how
    authOp,     \* the last HTTP request to /auth or /users and its response
    reviews,    \* the reviews collection, in insertion order
    reviewOp,   \* the last call made on a review and its outcome
    notifications,  \* the notifications collection, in insertion order
    notificationOp, \* the last call made on a notification and its outcome
    sessions,   \* the sessions collection, in insertion order
    sessionOp,  \* the last call made on sessions and its outcome
    calls,      \* the service calls in progress: what each has read so far
    errorOp     \* the last error given to globalErrorHandler and the response

bookingVars == <<bookings, bookingOp>>
authVars == <<users, secrets, authOp>>
reviewVars == <<reviews, reviewOp>>
notificationVars == <<notifications, notificationOp>>
sessionVars == <<sessions, sessionOp>>
sideVars == <<notificationVars, sessionVars, calls, errorOp>>
vars == <<now, bookings, bookingOp, users, secrets, authOp, reviews, reviewOp,
          notifications, notificationOp, sessions, sessionOp, calls, errorOp>>

-----------------------------------------------------------------------------
(* Bounds of the model *)

MaxNow == 1
MaxUsers == 2
MaxBookings == 2
MaxHistory == 2
MaxDeletes == 1
MaxReviews == 2
MaxBookingRefs == 2
MaxSessions == 2

UserIds == 1..MaxUsers

None == "none"

\* an absent number (undefined) and an absent or empty string
NoNumber == -1
NoCode == << >>

-----------------------------------------------------------------------------
(* Error translation: src/src/core/middleware/errorHandler.ts *)

ValidationError == "ValidationError"
CastError == "CastError"
DuplicateKey == "E11000"

\* handleMongooseError(error): the status code of the AppError it returns
handleMongooseError(error) ==
    IF error = ValidationError THEN 400
    ELSE IF error = CastError THEN 400
    ELSE IF error = DuplicateKey THEN 409
    ELSE 500

\* details of an error or of a response: none, the field errors of a
\* validation, the field of a duplicate, the service, or the message and stack
\* trace of an original error
NoDetails == "none"

\* new AppError(message, statusCode, isOperational, code, details); an undefined
\* code is "", and name is "Error" because no class sets it
AppError(message, statusCode, isOperational, code, details) ==
    [isAppError |-> TRUE, name |-> "Error", errno |-> 0, message |-> message,
     statusCode |-> statusCode, isOperational |-> isOperational, code |-> code,
     details |-> details]

\* any other thrown value: its name, its numeric code (0 when it has none), its
\* statusCode (0 when it has none) and its message
OtherError(name, errno, statusCode, message) ==
    [isAppError |-> FALSE, name |-> name, errno |-> errno, message |-> message,
     statusCode |-> statusCode, isOperational |-> FALSE, code |-> "",
     details |-> NoDetails]

\* new DatabaseError(message, originalError)
DatabaseError(message) == AppError(message, 500, TRUE, "DATABASE_ERROR", "originalStack")

\* the status codes of the error classes
ErrorStatusCodes == {400, 401, 403, 404, 409, 429, 500, 503}

\* what reaches globalErrorHandler: AppErrors of every status, operational or
\* not, with or without a code; the catch-all of a service after a datastore
\* failure; a DatabaseError; Mongoose and driver errors; JWT errors; other
\* errors with and without a statusCode or a message
ThrownErrors ==
    { AppError("User not found", statusCode, isOperational, code, NoDetails) :
        statusCode \in ErrorStatusCodes, isOperational \in BOOLEAN,
        code \in {"", "NOT_FOUND_ERROR"} }
    \cup { AppError("Failed to delete user", 500, TRUE, "", NoDetails),
           DatabaseError("Database unavailable"),
           AppError("External service mail is unavailable", 503, TRUE,
                    "EXTERNAL_SERVICE_ERROR", "service"),
           OtherError("ValidationError", 0, 0, "Booking validation failed"),
           OtherError("CastError", 0, 0, "Cast to ObjectId failed"),
           OtherError("MongoServerError", 11000, 0, "E11000 duplicate key error"),
           OtherError("MongoNetworkError", 0, 0, "connection refused"),
           OtherError("JsonWebTokenError", 0, 0, "jwt malformed"),
           OtherError("TokenExpiredError", 0, 0, "jwt expired"),
           OtherError("TypeError", 0, 0, "x is not a function"),
           OtherError("SyntaxError", 0, 400, "Unexpected token in JSON"),
           OtherError("Error", 0, 0, "") }

\* handleMongooseError(error): the whole AppError
MongooseAppError(err) ==
    IF err.name = "ValidationError"
    THEN AppError("Validation failed", handleMongooseError(ValidationError), TRUE,
                  "VALIDATION_ERROR", "errors")
    ELSE IF err.name = "CastError"
    THEN AppError("Invalid ID format", handleMongooseError(CastError), TRUE,
                  "CAST_ERROR", NoDetails)
    ELSE IF err.errno = 11000
    THEN AppError("Duplicate value for field", handleMongooseError(DuplicateKey), TRUE,
                  "DUPLICATE_ERROR", "field")
    ELSE AppError("Database operation failed", handleMongooseError(None), FALSE, "",
                  NoDetails)

\* handleJWTError(error)
handleJWTError(err) ==
    IF err.name = "JsonWebTokenError"
    THEN AppError("Invalid token", 401, TRUE, "INVALID_TOKEN", NoDetails)
    ELSE IF err.name = "TokenExpiredError"
    THEN AppError("Token expired", 401, TRUE, "EXPIRED_TOKEN", NoDetails)
    ELSE AppError("Authentication failed", 401, TRUE, "AUTH_ERROR", NoDetails)

\* the body and status of an error response; stack tells whether error.stack
\* is in it
ErrorResponse(status, message, code, details, stack) ==
    [status |-> status, message |-> message, code |-> code, details |-> details,
     stack |-> stack]

\* sendErrorDev(err, res); the error it gets is a copy made by spreading, which
\* has no stack of its own unless it was built in the handler
sendErrorDev(err, builtHere) ==
    ErrorResponse(err.statusCode, err.message, err.code, err.details, builtHere)

\* sendErrorProd(err, res)
sendErrorProd(err) ==
    IF err.isOperational
    THEN ErrorResponse(err.statusCode, err.message, err.code, err.details, FALSE)
    ELSE ErrorResponse(500, "Something went wrong", "INTERNAL_SERVER_ERROR",
                       NoDetails, FALSE)

\* config.nodeEnv: process.env.NODE_ENV || 'development'
NodeEnvs == {"development", "production", "test"}

\* globalErrorHandler(err, req, res, next)
globalErrorHandler(err, nodeEnv) ==
    LET known == err.name \in {"ValidationError", "CastError"} \/ err.errno = 11000
        jwt == err.name \in {"JsonWebTokenError", "TokenExpiredError"}
        error == IF known THEN MongooseAppError(err)
                 ELSE IF jwt THEN handleJWTError(err)
                 ELSE IF ~err.isAppError
                 THEN AppError(IF err.message # "" THEN err.message
                               ELSE "Something went wrong",
                               IF err.statusCode # 0 THEN err.statusCode ELSE 500,
                               FALSE, "", NoDetails)
                 ELSE err
    IN  IF nodeEnv = "development"
        THEN sendErrorDev(error, ~err.isAppError)
        ELSE sendErrorProd(error)

NoErrorOp ==
    [nodeEnv |-> "development", thrown |-> FALSE,
     err |-> OtherError("Error", 0, 0, ""),
     response |-> ErrorResponse(0, "", "", NoDetails, FALSE)]

\* next(err) in a controller or middleware: globalErrorHandler answers
HandleError ==
    \E err \in ThrownErrors :
        /\ errorOp' = [nodeEnv |-> errorOp.nodeEnv, thrown |-> TRUE, err |-> err,
                       response |-> globalErrorHandler(err, errorOp.nodeEnv)]
        /\ UNCHANGED <<now, bookingVars, authVars, reviewVars, notificationVars,
                       sessionVars, calls>>

-----------------------------------------------------------------------------
(* Booking: src/src/modules/bookings/models/Booking.ts *)

PENDING == "pending"
CONFIRMED == "confirmed"
CANCELLED == "cancelled"
COMPLETED == "completed"

BookingStatus == {PENDING, CONFIRMED, CANCELLED, COMPLETED}

CancelWindowHours == 24
ModifyWindowHours == 48

\* the hours ahead of now at which a new booking may be requested
DateOffsets == {CancelWindowHours, CancelWindowHours + 1}

\* the customer who books, and the users who act on a booking afterwards:
\* the customer and an operator
Customers == {1}
Actors == {1, 2}

\* the status a client sends with a new booking: none (the default applies)
\* or an explicit one
CreationStatuses == {None, CONFIRMED}

\* guest counts a client may send: 2 adults + 1 child, a lone adult,
\* and a party without adults
GuestChoices ==
    { [adults |-> 2, children |-> 1, infants |-> 0],
      [adults |-> 1, children |-> 0, infants |-> 0],
      [adults |-> 0, children |-> 1, infants |-> 0] }

\* the suffixes Math.random() may yield
RandomSuffixes == {"r1", "r2"}

\* the suffixes drawn when the document has no code yet
Suffixes(doc) == IF doc.confirmationCode = NoCode THEN RandomSuffixes ELSE {"r1"}

\* confirmation codes a client may supply with a new booking
SuppliedCodes == {<<"TOL", "client">>}

\* what a caller may assign to the confirmation code of a stored booking:
\* the empty string, the code new bookings are sent with, another code
CodeEdits == {NoCode} \cup SuppliedCodes \cup {<<"TOL", "other">>}

\* generateConfirmationCode(): prefix + base-36 timestamp + random suffix
generateConfirmationCode(t, random) == <<"TOL", t, random>>

HoursUntilBooking(doc, t) == doc.dateRequested - t

\* a slip of canBeCancelled: >= 24 instead of > 24
canBeCancelledInclusive(doc, t) ==
    /\ doc.status \in {PENDING, CONFIRMED}
    /\ HoursUntilBooking(doc, t) >= CancelWindowHours

\* canBeCancelled()
canBeCancelled(doc, t) ==
    /\ doc.status \in {PENDING, CONFIRMED}
    /\ HoursUntilBooking(doc, t) > CancelWindowHours

\* a slip of canBeModified: >= 48 instead of > 48
canBeModifiedInclusive(doc, t) ==
    /\ doc.status \in {PENDING, CONFIRMED}
    /\ HoursUntilBooking(doc, t) >= ModifyWindowHours

\* canBeModified()
canBeModified(doc, t) ==
    /\ doc.status \in {PENDING, CONFIRMED}
    /\ HoursUntilBooking(doc, t) > ModifyWindowHours

StatusEntry(status, t, updatedBy) ==
    [status |-> status, updatedAt |-> t, updatedBy |-> updatedBy]

\* a slip of addStatusUpdate: unshift instead of push
addStatusUpdateUnshift(doc, status, updatedBy, t) ==
    [doc EXCEPT !.statusHistory = <<StatusEntry(status, t, updatedBy)>> \o @]

\* addStatusUpdate(status, updatedBy): statusHistory.push({...})
addStatusUpdate(doc, status, updatedBy, t) ==
    [doc EXCEPT !.statusHistory = Append(@, StatusEntry(status, t, updatedBy))]

\* bookingSchema.pre('save')
BookingPreSave(doc, statusModified, t, random) ==
    LET d1 == [doc EXCEPT !.totalGuests =
                   doc.guests.adults + doc.guests.children + doc.guests.infants]
        d2 == IF d1.confirmationCode = NoCode
              THEN [d1 EXCEPT !.confirmationCode = generateConfirmationCode(t, random)]
              ELSE d1
    IN  IF statusModified
        THEN addStatusUpdate(d2, d2.status, d2.user, t)
        ELSE d2

\* the schema's validators, which Mongoose runs before the pre('save') hooks;
\* isNew: every path is validated, otherwise only the modified ones
BookingValid(doc, isNew, t) ==
    /\ doc.status \in BookingStatus
    /\ doc.guests.adults >= 1
    /\ doc.guests.children >= 0
    /\ doc.guests.infants >= 0
    /\ doc.totalGuests # NoNumber
    /\ doc.totalGuests >= 1
    /\ doc.confirmationCode # NoCode
    /\ isNew => doc.dateRequested >= t
    /\ \A i \in 1..Len(doc.statusHistory) :
           doc.statusHistory[i].status \in BookingStatus

\* no such index: every confirmation code is accepted
BookingCodeFreeNoIndex(code, except) == TRUE

\* the unique index on confirmationCode
BookingCodeFree(code, except) ==
    \A j \in DOMAIN bookings : j # except => bookings[j].confirmationCode # code

\* the outcome of save(): validation, the pre('save') hooks, then the write
\* under the unique index; errors go through globalErrorHandler
BookingSaveStatus(doc, saved, isNew, except, t, okStatus) ==
    IF ~BookingValid(doc, isNew, t) THEN handleMongooseError(ValidationError)
    ELSE IF ~BookingCodeFree(saved.confirmationCode, except)
    THEN handleMongooseError(DuplicateKey)
    ELSE okStatus

\* a call on a booking and its outcome: code is the confirmation code the
\* caller wrote, http the status of the response
BookingOp(op, booking, actor, status, code, http) ==
    [op |-> op, booking |-> booking, actor |-> actor, status |-> status,
     code |-> code, http |-> http, ok |-> http \in {200, 201}]

NoBookingOp == BookingOp(None, 0, 0, None, NoCode, 0)

\* new Booking(data).save()
CreateBooking ==
    \E user \in Customers, offset \in DateOffsets, guests \in GuestChoices,
       total \in {NoNumber, 1}, status \in CreationStatuses,
       code \in {NoCode} \cup SuppliedCodes :
      \E random \in Suffixes([confirmationCode |-> code]) :
        LET doc == [user |-> user,
                    status |-> IF status = None THEN PENDING ELSE status,
                    statusHistory |-> << >>,
                    dateRequested |-> now + offset,
                    guests |-> guests,
                    totalGuests |-> total,
                    confirmationCode |-> code]
            \* a path set from its default is not a modified path
            saved == BookingPreSave(doc, status # None, now, random)
            http == BookingSaveStatus(doc, saved, TRUE, 0, now, 201)
        IN  /\ Len(bookings) < MaxBookings
            /\ bookings' = IF http = 201 THEN Append(bookings, saved) ELSE bookings
            /\ bookingOp' = BookingOp("create", Len(bookings) + 1, user, doc.status,
                                      code, http)
            /\ UNCHANGED <<now, authVars, reviewVars, sideVars>>

\* doc.status = status; doc.save(), done by the acting user
SaveStatus ==
    \E b \in DOMAIN bookings, status \in BookingStatus, actor \in Actors :
      \E random \in Suffixes(bookings[b]) :
        LET doc == [bookings[b] EXCEPT !.status = status]
            statusModified == status # bookings[b].status
            saved == BookingPreSave(doc, statusModified, now, random)
            http == BookingSaveStatus(doc, saved, FALSE, b, now, 200)
        IN  /\ Len(saved.statusHistory) <= MaxHistory
            /\ bookings' = IF http = 200 THEN [bookings EXCEPT ![b] = saved]
                           ELSE bookings
            /\ bookingOp' = BookingOp("saveStatus", b, actor, status, NoCode, http)
            /\ UNCHANGED <<now, authVars, reviewVars, sideVars>>

\* doc.addStatusUpdate(status, actor); doc.save()
SaveStatusUpdate ==
    \E b \in DOMAIN bookings, status \in BookingStatus, actor \in Actors :
      \E random \in Suffixes(bookings[b]) :
        LET doc == addStatusUpdate(bookings[b], status, actor, now)
            saved == BookingPreSave(doc, FALSE, now, random)
            http == BookingSaveStatus(doc, saved, FALSE, b, now, 200)
        IN  /\ Len(saved.statusHistory) <= MaxHistory
            /\ bookings' = IF http = 200 THEN [bookings EXCEPT ![b] = saved]
                           ELSE bookings
            /\ bookingOp' = BookingOp("addStatusUpdate", b, actor, status, NoCode, http)
            /\ UNCHANGED <<now, authVars, reviewVars, sideVars>>

\* doc.bookingDetails.guests = {...}; doc.save()
SaveGuests ==
    \E b \in DOMAIN bookings, actor \in Actors, guests \in GuestChoices :
      \E random \in Suffixes(bookings[b]) :
        LET doc == [bookings[b] EXCEPT !.guests = guests]
            saved == BookingPreSave(doc, FALSE, now, random)
            http == BookingSaveStatus(doc, saved, FALSE, b, now, 200)
        IN  /\ bookings' = IF http = 200 THEN [bookings EXCEPT ![b] = saved]
                           ELSE bookings
            /\ bookingOp' = BookingOp("saveGuests", b, actor, bookings[b].status,
                                      NoCode, http)
            /\ UNCHANGED <<now, authVars, reviewVars, sideVars>>

\* doc.confirmationCode = code; doc.save()
SaveCode ==
    \E b \in DOMAIN bookings, actor \in Actors, code \in CodeEdits :
      \E random \in Suffixes([confirmationCode |-> code]) :
        LET doc == [bookings[b] EXCEPT !.confirmationCode = code]
            saved == BookingPreSave(doc, FALSE, now, random)
            http == BookingSaveStatus(doc, saved, FALSE, b, now, 200)
        IN  /\ bookings' = IF http = 200 THEN [bookings EXCEPT ![b] = saved]
                           ELSE bookings
            /\ bookingOp' = BookingOp("saveCode", b, actor, bookings[b].status,
                                      code, http)
            /\ UNCHANGED <<now, authVars, reviewVars, sideVars>>

\* Booking.findByIdAndUpdate(id, { 'bookingDetails.guests': g [, totalGuests] }):
\* an update writes the fields it is given; neither the validators nor the
\* pre('save') hook run
UpdateGuestsDirect ==
    \E b \in DOMAIN bookings, actor \in Actors, guests \in GuestChoices,
       total \in {NoNumber, 1} :
        /\ bookings' = [bookings EXCEPT ![b].guests = guests,
                                        ![b].totalGuests =
                                            IF total = NoNumber THEN @ ELSE total]
        /\ bookingOp' = BookingOp("updateGuests", b, actor, bookings[b].status,
                                  NoCode, 200)
        /\ UNCHANGED <<now, authVars, reviewVars, sideVars>>

\* booking.canBeCancelled(), read at the current time
AskCanBeCancelled ==
    \E b \in DOMAIN bookings :
        /\ bookingOp' = [BookingOp("canBeCancelled", b, 0, bookings[b].status,
                                   NoCode, 200)
                             EXCEPT !.ok = canBeCancelled(bookings[b], now)]
        /\ UNCHANGED <<now, bookings, authVars, reviewVars, sideVars>>

\* booking.canBeModified(), read at the current time
AskCanBeModified ==
    \E b \in DOMAIN bookings :
        /\ bookingOp' = [BookingOp("canBeModified", b, 0, bookings[b].status,
                                   NoCode, 200)
                             EXCEPT !.ok = canBeModified(bookings[b], now)]
        /\ UNCHANGED <<now, bookings, authVars, reviewVars, sideVars>>

\* the clock advances by one hour
Tick ==
    /\ now < MaxNow
    /\ now' = now + 1
    /\ UNCHANGED <<bookingVars, authVars, reviewVars, sideVars>>

-----------------------------------------------------------------------------
(* Notification: src/src/modules/bookings/models/Booking.ts (second model) *)

Channels == {"push", "email", "sms"}

DeliveryOutcomes == {"delivered", "failed"}

\* channels.<channel> of a new notification
NewChannel == [sent |-> FALSE, sentAt |-> NoNumber, deliveryStatus |-> "pending"]

\* isExpired(): expiresAt && expiresAt < new Date()
isExpired(doc, t) == doc.expiresAt # NoNumber /\ doc.expiresAt < t

\* shouldBeSent(channel)
shouldBeSent(doc, channel, t) == ~doc.channels[channel].sent /\ ~isExpired(doc, t)

\* markAsSent(channel, status)
markAsSent(doc, channel, status, t) ==
    [doc EXCEPT !.channels[channel] =
        [sent |-> TRUE, sentAt |-> t, deliveryStatus |-> status]]

NoNotificationOp == [op |-> None, notification |-> 0, channel |-> None, result |-> FALSE]

\* notification.shouldBeSent(channel), read at the current time
AskShouldBeSent ==
    \E n \in DOMAIN notifications, channel \in Channels :
        /\ notificationOp' = [op |-> "shouldBeSent", notification |-> n,
                              channel |-> channel,
                              result |-> shouldBeSent(notifications[n], channel, now)]
        /\ UNCHANGED <<now, notifications, bookingVars, authVars, reviewVars,
                       sessionVars, calls, errorOp>>

\* notification.markAsSent(channel, status); notification.save(): the save
\* validates the modified paths only, which are those of the channel
MarkAsSent ==
    \E n \in DOMAIN notifications, channel \in Channels, status \in DeliveryOutcomes :
        /\ notifications' = [notifications EXCEPT
                                ![n] = markAsSent(@, channel, status, now)]
        /\ notificationOp' = [op |-> "markAsSent", notification |-> n,
                              channel |-> channel, result |-> TRUE]
        /\ UNCHANGED <<now, bookingVars, authVars, reviewVars, sessionVars, calls,
                       errorOp>>

-----------------------------------------------------------------------------
(* Session: src/src/modules/auth/models/Session.ts *)

\* the enum of revokeReason
RevokeReasons ==
    {"user_logout", "admin_revoke", "security_breach", "suspicious_activity",
     "password_change", "account_deactivation", "multiple_sessions", "expired"}

\* reason = 'security_revoke', the default of revokeAllUserSessions
DefaultRevokeReason == "security_revoke"

\* the reasons callers pass: none, two of the enum, and one outside it
ReasonInputs == {None, "user_logout", "expired", "other"}

\* the users who hold sessions, and who revoke them (0: nobody named)
SessionUsers == {1, 2}
Revokers == {0, 2}

NewSession(user) ==
    [user |-> user, isActive |-> TRUE, revokedAt |-> NoNumber, revokedBy |-> 0,
     revokeReason |-> None]

\* revoke(revokedBy, reason) on a loaded document
revoke(doc, revokedBy, reason, t) ==
    [doc EXCEPT !.isActive = FALSE,
                !.revokedAt = t,
                !.revokedBy = IF revokedBy # 0 THEN revokedBy ELSE @,
                !.revokeReason = IF reason # None THEN reason ELSE @]

\* the validators of save() on the paths revoke() modifies
SessionValid(doc) == doc.revokeReason \in RevokeReasons \cup {None}

\* the argument of revokeAllUserSessions after its default is applied
ReasonOrDefault(reason) == IF reason = None THEN DefaultRevokeReason ELSE reason

\* Session.revokeAllUserSessions(userId, revokedBy, reason): updateMany with
\* $set on the active sessions of the user, which runs no validators
revokeAllUserSessions(userId, revokedBy, reason, t) ==
    [s \in DOMAIN sessions |->
        IF sessions[s].user = userId /\ sessions[s].isActive
        THEN [sessions[s] EXCEPT !.isActive = FALSE,
                                 !.revokedAt = t,
                                 !.revokedBy = revokedBy,
                                 !.revokeReason = ReasonOrDefault(reason)]
        ELSE sessions[s]]

NoSessionOp == [op |-> None, user |-> 0, reason |-> None, status |-> 0]

\* new Session({ user, ... }).save()
CreateSession ==
    \E user \in SessionUsers :
        /\ Len(sessions) < MaxSessions
        /\ sessions' = Append(sessions, NewSession(user))
        /\ sessionOp' = [op |-> "create", user |-> user, reason |-> None,
                         status |-> 201]
        /\ UNCHANGED <<now, bookingVars, authVars, reviewVars, notificationVars,
                       calls, errorOp>>

\* session.revoke(revokedBy, reason); session.save()
RevokeSession ==
    \E s \in DOMAIN sessions, revokedBy \in Revokers, reason \in ReasonInputs :
        LET doc == revoke(sessions[s], revokedBy, reason, now)
            status == IF SessionValid(doc) THEN 200
                      ELSE handleMongooseError(ValidationError)
        IN  /\ sessions' = IF status = 200 THEN [sessions EXCEPT ![s] = doc]
                           ELSE sessions
            /\ sessionOp' = [op |-> "revoke", user |-> sessions[s].user,
                             reason |-> reason, status |-> status]
            /\ UNCHANGED <<now, bookingVars, authVars, reviewVars, notificationVars,
                           calls, errorOp>>

\* Session.revokeAllUserSessions(userId, revokedBy, reason)
RevokeAllUserSessions ==
    \E userId \in SessionUsers, revokedBy \in Revokers, reason \in ReasonInputs :
        /\ sessions' = revokeAllUserSessions(userId, revokedBy, reason, now)
        /\ sessionOp' = [op |-> "revokeAll", user |-> userId, reason |-> reason,
                         status |-> 200]
        /\ UNCHANGED <<now, bookingVars, authVars, reviewVars, notificationVars,
                       calls, errorOp>>

-----------------------------------------------------------------------------
(* Placeholder tokens: src/src/modules/auth/services/auth.service.ts *)

Sep == "_"

\* String.prototype.split(sep): the parts between the separators
RECURSIVE Split(_, _)
Split(s, sep) ==
    IF s = << >>
    THEN << << >> >>
    ELSE LET rest == Split(Tail(s), sep)
         IN  IF Head(s) = sep
             THEN << << >> >> \o rest
             ELSE << <<Head(s)>> \o Head(rest) >> \o Tail(rest)

\* `temp_access_${user._id.toString()}_${Date.now()}`
AccessToken(id, t) ==
    <<"temp", Sep, "access", Sep, ToString(id), Sep, ToString(t)>>

\* `temp_refresh_${user._id.toString()}_${Date.now()}`
RefreshToken(id, t) ==
    <<"temp", Sep, "refresh", Sep, ToString(id), Sep, ToString(t)>>

IssueTokens(id, t) ==
    [accessToken |-> AccessToken(id, t), refreshToken |-> RefreshToken(id, t)]

NoTokens == [accessToken |-> << >>, refreshToken |-> << >>]

-----------------------------------------------------------------------------
(* Users: src/src/modules/users/models/User.ts *)

USER == "user"
BUSINESS_OWNER == "business_owner"
ADMIN == "admin"
SUPER_ADMIN == "super_admin"

UserRole == {USER, BUSINESS_OWNER, ADMIN, SUPER_ADMIN}

\* what clients send
Emails == {<<"alice@example.com">>, <<"bob@example.com">>}
StrongPasswords == {"Passw0rd1"}
Passwords == StrongPasswords \cup {"weak"}
RegisterRoles == {USER, ADMIN}
Avatars == {"https://cdn.example/a.png", "not-a-url"}
Salts == {"salt1"}

NoAvatar == ""

\* undefined, as an id: no document has it
Undefined == 0

\* a password as typed, and bcrypt.hash(password, saltRounds) of it
Plain(password) == <<password>>
BcryptHash(password, salt) == <<"$2a$12$", salt, password>>

\* userSchema.pre('save'): hash the password when it was modified
UserPreSave(doc, passwordModified, salt) ==
    IF passwordModified
    THEN [doc EXCEPT !.password = BcryptHash(doc.password[1], salt)]
    ELSE doc

\* Model.findById(id) of an id given as a number: the position, or 0 for null
FindById(id) == IF id \in DOMAIN users THEN id ELSE 0

\* Model.findById(text): the document whose _id.toString() is the text; a text
\* that is no id raises a CastError, which every caller here treats like null
FindByIdText(text) ==
    IF \E i \in DOMAIN users : <<ToString(i)>> = text
    THEN CHOOSE i \in DOMAIN users : <<ToString(i)>> = text
    ELSE 0

\* Model.findOne({ email })
FindByEmail(email) ==
    IF \E i \in DOMAIN users : users[i].email = email
    THEN CHOOSE i \in DOMAIN users : users[i].email = email
    ELSE 0

\* Model.findByIdAndUpdate(id, ...): the document updated.  With an undefined id
\* the filter is { _id: undefined }, which matches no document or, where the
\* undefined key is dropped from the filter, the first document
FindByIdAndUpdateTargets(id) ==
    IF id = Undefined
    THEN {0} \cup (IF users = << >> THEN {} ELSE {1})
    ELSE {FindById(id)}

-----------------------------------------------------------------------------
(* AuthService: src/src/modules/auth/services/auth.service.ts *)

NoPayload == [userId |-> 0, email |-> << >>, role |-> None]

Payload(u) == [userId |-> u, email |-> users[u].email, role |-> users[u].role]

\* verifyToken without the isActive check
verifyTokenAnyUser(token) ==
    LET parts == Split(token, Sep)
    IN  IF Len(parts) # 4 \/ parts[1] # <<"temp">> \/ parts[2] # <<"access">>
        THEN NoPayload
        ELSE LET u == FindByIdText(parts[3])
             IN  IF u = 0 THEN NoPayload ELSE Payload(u)

\* verifyToken(token): the payload, or NoPayload when it throws (always 401)
verifyToken(token) ==
    LET parts == Split(token, Sep)
    IN  IF Len(parts) # 4 \/ parts[1] # <<"temp">> \/ parts[2] # <<"access">>
        THEN NoPayload
        ELSE LET u == FindByIdText(parts[3])
             IN  IF u = 0 \/ ~users[u].isActive THEN NoPayload ELSE Payload(u)

\* the Authorization headers clients send: none, or Bearer <token>
TokenInputs ==
    { AccessToken(i, 0) : i \in UserIds }
    \cup { RefreshToken(1, 0),
           << >>,
           <<"temp", Sep, "access", Sep, "1">>,
           <<"temp", Sep, "access", Sep, "1", Sep, "0", Sep, "x">>,
           <<"jwt", Sep, "access", Sep, "1", Sep, "0">>,
           <<"temp", Sep, "access", Sep, "zz", Sep, "0">> }

NoHeader == [present |-> FALSE, token |-> << >>]

Headers == {NoHeader} \cup { [present |-> TRUE, token |-> t] : t \in TokenInputs }

\* AuthMiddleware.authenticate: the payload attached to the request, or
\* NoPayload when next(error) is called with a 401
authenticate(header) ==
    IF ~header.present \/ header.token = << >>
    THEN NoPayload
    ELSE verifyToken(header.token)

\* the request as the controllers see it after authenticate: the middleware
\* sets userId, userEmail and userRole; nothing ever sets req.user
Request(payload) ==
    [userId |-> payload.userId, userEmail |-> payload.email,
     userRole |-> payload.role, user |-> Undefined]

\* what a service call leaves for the next one to see: the call, its argument,
\* its answer and the user it acted on
NoCall == [op |-> None, arg |-> "", status |-> 0, actedOn |-> 0]

\* the fields of UpdatePreferencesDto
PreferenceFields ==
    {"language", "currency", "emailNotifications", "pushNotifications",
     "smsNotifications"}

\* an UpdatePreferencesDto: the fields the body has, and their values (a field
\* the body does not have is undefined; its value here is never read)
PreferencesDto(supplied, language, currency, email, push, sms) ==
    [supplied |-> supplied,
     language |-> IF "language" \in supplied THEN language ELSE "",
     currency |-> IF "currency" \in supplied THEN currency ELSE "",
     emailNotifications |-> "emailNotifications" \in supplied /\ email,
     pushNotifications |-> "pushNotifications" \in supplied /\ push,
     smsNotifications |-> "smsNotifications" \in supplied /\ sms]

NoRequest == PreferencesDto({}, "", "", FALSE, FALSE, FALSE)

Call(op) == [op |-> op.op, arg |-> op.arg, status |-> op.status, actedOn |-> op.actedOn]

NoAuthOp ==
    [op |-> None, header |-> NoHeader, email |-> << >>, password |-> "",
     status |-> 0, reqUser |-> NoPayload, actedOn |-> 0, tokens |-> NoTokens,
     arg |-> "", prev |-> NoCall, request |-> NoRequest]

AuthOp(op, header, email, password, status, reqUser, actedOn, tokens) ==
    [op |-> op, header |-> header, email |-> email, password |-> password,
     status |-> status, reqUser |-> reqUser, actedOn |-> actedOn, tokens |-> tokens,
     arg |-> "", prev |-> NoCall, request |-> NoRequest]

\* userSchema with a favoriteDestinations path
UserSchemaPathsWithFavorites ==
    {"name", "email", "password", "role", "isResident", "city", "phone", "avatar",
     "bio", "dateOfBirth", "isEmailVerified", "isActive", "lastLogin",
     "refreshToken", "passwordResetToken", "passwordResetExpires",
     "emailVerificationToken", "emailVerificationExpires", "preferences",
     "socialLinks", "favoriteDestinations"}

\* the top-level paths of userSchema; favoriteDestinations is not one of them
UserSchemaPaths ==
    {"name", "email", "password", "role", "isResident", "city", "phone", "avatar",
     "bio", "dateOfBirth", "isEmailVerified", "isActive", "lastLogin",
     "refreshToken", "passwordResetToken", "passwordResetExpires",
     "emailVerificationToken", "emailVerificationExpires", "preferences",
     "socialLinks"}

\* preferences as register sets them, which are the schema defaults too
DefaultPreferences ==
    [language |-> "es", currency |-> "COP",
     notifications |-> [email |-> TRUE, push |-> TRUE, sms |-> FALSE]]

\* strict mode: a document is created with the paths of the schema only, so
\* the favoriteDestinations: [] that register passes is not stored
StrictCreate(path, value) == IF path \in UserSchemaPaths THEN value ELSE << >>

NewUser(email, password, role) ==
    [email |-> email, password |-> Plain(password), role |-> role,
     isActive |-> TRUE, avatar |-> NoAvatar, lastLogin |-> NoNumber,
     preferences |-> DefaultPreferences,
     favoriteDestinations |-> StrictCreate("favoriteDestinations", << >>)]

\* a document of no user: what a call holds before it has read one
NoUser == NewUser(<< >>, "", None)

\* the service calls that can be in progress at once
CallIds == {1, 2}

\* a call that has not started: where it stands, what it was given, the
\* document it read, its answer, and whether it started while another call for
\* the same user and destination stood between its read and its write
IdleCall ==
    [pc |-> "idle", op |-> None, userId |-> 0, arg |-> "", request |-> NoRequest,
     snapshot |-> NoUser, status |-> 0, overlaps |-> FALSE]

\* POST /auth/register: AuthController.register, AuthService.register
Register ==
    \E email \in Emails, password \in Passwords, role \in RegisterRoles,
       salt \in Salts :
        LET created == UserPreSave(NewUser(email, password, role), TRUE, salt)
            id == Len(users) + 1
        IN  /\ Len(users) < MaxUsers
            /\ IF password \notin StrongPasswords
               THEN /\ authOp' = AuthOp("register", NoHeader, email, password, 400,
                                        NoPayload, 0, NoTokens)
                    /\ UNCHANGED <<users, secrets>>
               ELSE IF FindByEmail(email) # 0
               THEN /\ authOp' = AuthOp("register", NoHeader, email, password, 409,
                                        NoPayload, 0, NoTokens)
                    /\ UNCHANGED <<users, secrets>>
               ELSE /\ users' = Append(users, [created EXCEPT !.lastLogin = now])
                    /\ secrets' = Append(secrets,
                                         [password |-> password, setBy |-> "register"])
                    /\ authOp' = AuthOp("register", NoHeader, email, password, 201,
                                        NoPayload, id, IssueTokens(id, now))
            /\ UNCHANGED <<now, bookingVars, reviewVars, sideVars>>

\* POST /auth/login: AuthController.login, AuthService.login
Login ==
    \E email \in Emails, password \in Passwords :
        LET u == FindByEmail(email)
            status == IF u = 0 THEN 401
                      ELSE IF ~users[u].isActive THEN 403
                      ELSE IF Plain(password) # users[u].password THEN 401
                      ELSE 200
        IN  /\ authOp' = AuthOp("login", NoHeader, email, password, status, NoPayload,
                                IF status = 200 THEN u ELSE 0,
                                IF status = 200 THEN IssueTokens(u, now) ELSE NoTokens)
            /\ users' = IF status = 200
                        THEN [users EXCEPT ![u].lastLogin = now]
                        ELSE users
            /\ UNCHANGED <<now, secrets, bookingVars, reviewVars, sideVars>>

\* AuthService.resetPassword(email, newPassword)
ResetPassword ==
    \E email \in Emails, password \in Passwords :
        LET u == FindByEmail(email)
        IN  /\ authOp' = AuthOp("resetPassword", NoHeader, email, password,
                                IF u = 0 THEN 404 ELSE 200, NoPayload, u, NoTokens)
            /\ users' = IF u = 0 THEN users
                        ELSE [users EXCEPT ![u].password = Plain(password)]
            /\ secrets' = IF u = 0 THEN secrets
                          ELSE [secrets EXCEPT ![u] =
                                    [password |-> password, setBy |-> "reset"]]
            /\ UNCHANGED <<now, bookingVars, reviewVars, sideVars>>

\* POST /auth/verify-token: AuthController.verifyToken; the payload is returned
VerifyTokenRoute ==
    \E header \in Headers :
        LET payload == IF ~header.present \/ header.token = << >>
                       THEN NoPayload
                       ELSE verifyToken(header.token)
        IN  /\ authOp' = AuthOp("verifyToken", header, << >>, "",
                                IF payload = NoPayload THEN 401 ELSE 200,
                                payload, payload.userId, NoTokens)
            /\ UNCHANGED <<now, users, secrets, bookingVars, reviewVars, sideVars>>

\* GET /auth/me: authenticate, AuthController.me, AuthService.getCurrentUser
Me ==
    \E header \in Headers :
        LET payload == authenticate(header)
            req == Request(payload)
            u == FindById(req.userId)
        IN  /\ authOp' = AuthOp("me", header, << >>, "",
                                IF payload = NoPayload THEN 401
                                ELSE IF u = 0 THEN 404 ELSE 200,
                                payload, u, NoTokens)
            /\ UNCHANGED <<now, users, secrets, bookingVars, reviewVars, sideVars>>

\* refreshToken without the test of the token kind
refreshTokenAnyKind(token) ==
    LET parts == Split(token, Sep)
        rejected == [status |-> 401, user |-> 0, tokens |-> NoTokens]
    IN  IF Len(parts) # 4 \/ parts[1] # <<"temp">>
        THEN rejected
        ELSE LET u == FindByIdText(parts[3])
             IN  IF u = 0 \/ ~users[u].isActive THEN rejected
                 ELSE [status |-> 200, user |-> u, tokens |-> IssueTokens(u, now)]

\* refreshToken without the test of isActive
refreshTokenAnyUser(token) ==
    LET parts == Split(token, Sep)
        rejected == [status |-> 401, user |-> 0, tokens |-> NoTokens]
    IN  IF Len(parts) # 4 \/ parts[1] # <<"temp">> \/ parts[2] # <<"refresh">>
        THEN rejected
        ELSE LET u == FindByIdText(parts[3])
             IN  IF u = 0 THEN rejected
                 ELSE [status |-> 200, user |-> u, tokens |-> IssueTokens(u, now)]

\* AuthService.refreshToken(refreshToken): new tokens, or the 401 it throws
refreshToken(token) ==
    LET parts == Split(token, Sep)
        rejected == [status |-> 401, user |-> 0, tokens |-> NoTokens]
    IN  IF Len(parts) # 4 \/ parts[1] # <<"temp">> \/ parts[2] # <<"refresh">>
        THEN rejected
        ELSE LET u == FindByIdText(parts[3])
             IN  IF u = 0 \/ ~users[u].isActive THEN rejected
                 ELSE [status |-> 200, user |-> u, tokens |-> IssueTokens(u, now)]

\* the refresh tokens clients send in the body: issued ones, an access token,
\* nothing, and text that is no token
RefreshInputs ==
    { RefreshToken(i, 0) : i \in UserIds }
    \cup { AccessToken(1, 0), << >>, <<"temp", Sep, "refresh", Sep, "1">> }

\* POST /auth/refresh: AuthController.refreshToken, AuthService.refreshToken;
\* the token travels in the body, recorded here as a header that is not present
RefreshTokenRoute ==
    \E token \in RefreshInputs :
        LET result == IF token = << >>
                      THEN [status |-> 400, user |-> 0, tokens |-> NoTokens]
                      ELSE refreshToken(token)
        IN  /\ authOp' = AuthOp("refresh", [present |-> FALSE, token |-> token],
                                << >>, "", result.status, NoPayload, result.user,
                                result.tokens)
            /\ UNCHANGED <<now, users, secrets, bookingVars, reviewVars, sideVars>>

\* POST /auth/logout: authenticate, AuthController.logout, AuthService.logout,
\* which writes a log line
Logout ==
    \E header \in Headers :
        LET payload == authenticate(header)
        IN  /\ authOp' = AuthOp("logout", header, << >>, "",
                                IF payload = NoPayload THEN 401 ELSE 200,
                                payload, payload.userId, NoTokens)
            /\ UNCHANGED <<now, users, secrets, bookingVars, reviewVars, sideVars>>

-----------------------------------------------------------------------------
(* User routes: src/src/modules/users/routes/user.routes.ts,                *)
(* controllers/user.controller.ts, services/user.service.ts                 *)

\* `deleted_${Date.now()}_${user.email}`
DeletedEmail(email, t) == <<"deleted", Sep, ToString(t), Sep>> \o email

\* deleteUser that leaves the email as it was
deleteUserKeepEmail(userId) ==
    LET u == FindById(userId)
    IN  IF u = 0
        THEN [status |-> 404, users |-> users]
        ELSE [status |-> 200, users |-> [users EXCEPT ![u].isActive = FALSE]]

\* UserService.deleteUser(userId): the status and the collection afterwards.
\* The unique index on email refuses a new email another user holds; the
\* service turns that error into 500 'Failed to delete user'
deleteUser(userId) ==
    LET u == FindById(userId)
    IN  IF u = 0
        THEN [status |-> 404, users |-> users]
        ELSE IF FindByEmail(DeletedEmail(users[u].email, now)) # 0
        THEN [status |-> 500, users |-> users]
        ELSE [status |-> 200,
              users |-> [users EXCEPT ![u].isActive = FALSE,
                                      ![u].email = DeletedEmail(users[u].email, now)]]

\* how often a user was soft-deleted: each deletion prefixes the email again
Deletions(user) == (Len(user.email) - 1) \div 4

\* DELETE /users/:id: authenticate, UserController.deleteUser
DeleteUserRoute ==
    \E header \in Headers, id \in UserIds :
        LET payload == authenticate(header)
            result == deleteUser(id)
        IN  /\ id \in DOMAIN users => Deletions(users[id]) < MaxDeletes
            /\ IF payload = NoPayload
               THEN /\ authOp' = AuthOp("deleteUser", header, << >>, "", 401,
                                        NoPayload, 0, NoTokens)
                    /\ UNCHANGED <<now, users, secrets, bookingVars, reviewVars, sideVars>>
               ELSE /\ authOp' = AuthOp("deleteUser", header, << >>, "", result.status,
                                        payload, id, NoTokens)
                    /\ users' = result.users
                    /\ UNCHANGED <<now, secrets, bookingVars, reviewVars, sideVars>>

\* a call of userService.deleteUser
DeleteUser ==
    \E id \in UserIds :
        LET result == deleteUser(id)
        IN  /\ id \in DOMAIN users => Deletions(users[id]) < MaxDeletes
            /\ users' = result.users
            /\ authOp' = AuthOp("deleteUser", NoHeader, << >>, "", result.status,
                                NoPayload, id, NoTokens)
            /\ UNCHANGED <<now, secrets, bookingVars, reviewVars, sideVars>>

\* req.user?.userId in the /me controllers
MeUserId(req) == IF req.user = Undefined THEN Undefined ELSE req.user

\* GET /users/me/favorites: authenticate, UserController.getFavorites,
\* UserService.getFavorites
GetFavoritesRoute ==
    \E header \in Headers :
        LET payload == authenticate(header)
            userId == MeUserId(Request(payload))
            u == FindById(userId)
        IN  /\ authOp' = AuthOp("getFavorites", header, << >>, "",
                                IF payload = NoPayload THEN 401
                                ELSE IF u = 0 THEN 404 ELSE 200,
                                payload, IF payload = NoPayload THEN 0 ELSE u, NoTokens)
            /\ UNCHANGED <<now, users, secrets, bookingVars, reviewVars, sideVars>>

\* GET /users/me/stats: authenticate, UserController.getUserStats,
\* UserService.getUserStats; req.params.id is undefined on this route
GetUserStatsRoute ==
    \E header \in Headers :
        LET payload == authenticate(header)
            userId == MeUserId(Request(payload))
            u == FindById(userId)
        IN  /\ authOp' = AuthOp("getUserStats", header, << >>, "",
                                IF payload = NoPayload THEN 401
                                ELSE IF u = 0 THEN 404 ELSE 200,
                                payload, IF payload = NoPayload THEN 0 ELSE u, NoTokens)
            /\ UNCHANGED <<now, users, secrets, bookingVars, reviewVars, sideVars>>

\* PUT /users/me/avatar: authenticate, UserController.updateAvatar,
\* UserService.updateAvatar
UpdateAvatarRoute ==
    \E header \in Headers, avatar \in Avatars :
        LET payload == authenticate(header)
            userId == MeUserId(Request(payload))
        IN  IF payload = NoPayload
            THEN /\ authOp' = AuthOp("updateAvatar", header, << >>, "", 401,
                                     NoPayload, 0, NoTokens)
                 /\ UNCHANGED <<now, users, secrets, bookingVars, reviewVars, sideVars>>
            ELSE IF avatar = "not-a-url"
            THEN /\ authOp' = AuthOp("updateAvatar", header, << >>, "", 400,
                                     payload, 0, NoTokens)
                 /\ UNCHANGED <<now, users, secrets, bookingVars, reviewVars, sideVars>>
            ELSE \E u \in FindByIdAndUpdateTargets(userId) :
                 /\ authOp' = AuthOp("updateAvatar", header, << >>, "",
                                     IF u = 0 THEN 404 ELSE 200, payload, u, NoTokens)
                 /\ users' = IF u = 0 THEN users
                             ELSE [users EXCEPT ![u].avatar = avatar]
                 /\ UNCHANGED <<now, secrets, bookingVars, reviewVars, sideVars>>

\* PUT /users/me/change-password: authenticate, UserController.changePassword,
\* UserService.changePassword; req.params.id is undefined on this route
ChangePasswordRoute ==
    \E header \in Headers, current \in Passwords, new \in Passwords :
        LET payload == authenticate(header)
            userId == MeUserId(Request(payload))
            u == FindById(userId)
            status == IF payload = NoPayload THEN 401
                      ELSE IF u = 0 THEN 404
                      ELSE IF users[u].password # Plain(current) THEN 400
                      ELSE 200
        IN  /\ authOp' = AuthOp("changePassword", header, << >>, new, status,
                                payload, IF payload = NoPayload THEN 0 ELSE u, NoTokens)
            /\ users' = IF status = 200
                        THEN [users EXCEPT ![u].password = Plain(new)]
                        ELSE users
            /\ secrets' = IF status = 200
                          THEN [secrets EXCEPT ![u] =
                                    [password |-> new, setBy |-> "change"]]
                          ELSE secrets
            /\ UNCHANGED <<now, bookingVars, reviewVars, sideVars>>

\* the bodies clients send to update preferences: any subset of the fields,
\* strings possibly empty, toggles possibly false
PreferenceRequests ==
    { PreferencesDto(supplied, language, currency, email, FALSE, TRUE) :
        supplied \in SUBSET PreferenceFields,
        language \in {"en", ""}, currency \in {"USD", ""}, email \in BOOLEAN }

\* the user whose preferences are updated: the first one, registered or not yet
PreferenceTargets == {1}

\* value && { ... } and value !== undefined && { ... } on a field of the body
Truthy(dto, field) == field \in dto.supplied /\ dto[field] # ""
Defined(dto, field) == field \in dto.supplied

\* updatedPreferences with every supplied field tested by truthiness
MergePreferencesTruthy(prior, dto) ==
    [language |-> IF Truthy(dto, "language") THEN dto.language ELSE prior.language,
     currency |-> IF Truthy(dto, "currency") THEN dto.currency ELSE prior.currency,
     notifications |->
        [email |-> IF Defined(dto, "emailNotifications") /\ dto.emailNotifications
                   THEN dto.emailNotifications ELSE prior.notifications.email,
         push |-> IF Defined(dto, "pushNotifications") /\ dto.pushNotifications
                  THEN dto.pushNotifications ELSE prior.notifications.push,
         sms |-> IF Defined(dto, "smsNotifications") /\ dto.smsNotifications
                 THEN dto.smsNotifications ELSE prior.notifications.sms]]

\* updatedPreferences: the stored preferences spread, then the language and the
\* currency when truthy, and the notification toggles when not undefined
MergePreferences(prior, dto) ==
    [language |-> IF Truthy(dto, "language") THEN dto.language ELSE prior.language,
     currency |-> IF Truthy(dto, "currency") THEN dto.currency ELSE prior.currency,
     notifications |->
        [email |-> IF Defined(dto, "emailNotifications")
                   THEN dto.emailNotifications ELSE prior.notifications.email,
         push |-> IF Defined(dto, "pushNotifications")
                  THEN dto.pushNotifications ELSE prior.notifications.push,
         sms |-> IF Defined(dto, "smsNotifications")
                 THEN dto.smsNotifications ELSE prior.notifications.sms]]

\* UserService.updatePreferences(userId, preferences)
updatePreferences(userId, dto) ==
    LET u == FindById(userId)
    IN  IF u = 0
        THEN [status |-> 404, users |-> users]
        ELSE [status |-> 200,
              users |-> [users EXCEPT
                            ![u].preferences = MergePreferences(@, dto)]]

\* a call of userService.updatePreferences
UpdatePreferences ==
    \E userId \in PreferenceTargets, dto \in PreferenceRequests :
        LET result == updatePreferences(userId, dto)
        IN  /\ users' = result.users
            /\ authOp' = [AuthOp("updatePreferences", NoHeader, << >>, "",
                                 result.status, NoPayload, userId, NoTokens)
                              EXCEPT !.request = dto]
            /\ UNCHANGED <<now, secrets, bookingVars, reviewVars, sideVars>>

\* the bodies of concurrent requests: each changes one field away from its
\* default
SingleFieldRequests ==
    { PreferencesDto({field}, "en", "USD", FALSE, FALSE, TRUE) :
        field \in PreferenceFields \ {"pushNotifications"} }

\* the update that replaces one field only, computed over what is stored
writePreferencesFieldwise(stored, snapshot, dto) ==
    [stored EXCEPT !.preferences = MergePreferences(stored.preferences, dto)]

\* findByIdAndUpdate(userId, { preferences: updatedPreferences }): the whole
\* preferences object, computed from the document findById returned, replaces
\* what is stored
writePreferences(stored, snapshot, dto) ==
    [stored EXCEPT !.preferences = MergePreferences(snapshot.preferences, dto)]

\* updatePreferences up to its first await: findById has answered
BeginUpdatePreferences ==
    \E c \in CallIds, userId \in PreferenceTargets, dto \in SingleFieldRequests :
        LET u == FindById(userId)
        IN  /\ calls[c].pc = "idle"
            /\ calls' = [calls EXCEPT ![c] =
                            IF u = 0
                            THEN [IdleCall EXCEPT !.pc = "done",
                                                  !.op = "updatePreferences",
                                                  !.userId = userId,
                                                  !.request = dto, !.status = 404]
                            ELSE [IdleCall EXCEPT !.pc = "read",
                                                  !.op = "updatePreferences",
                                                  !.userId = userId,
                                                  !.request = dto,
                                                  !.snapshot = users[u]]]
            /\ UNCHANGED <<now, bookingVars, authVars, reviewVars, notificationVars,
                           sessionVars, errorOp>>

\* updatePreferences from its first await: findByIdAndUpdate, then the answer
FinishUpdatePreferences ==
    \E c \in CallIds :
        LET u == calls[c].userId
        IN  /\ calls[c].pc = "read"
            /\ calls[c].op = "updatePreferences"
            /\ users' = [users EXCEPT
                            ![u] = writePreferences(@, calls[c].snapshot,
                                                    calls[c].request)]
            /\ calls' = [calls EXCEPT ![c].pc = "done", ![c].status = 200,
                                      ![c].snapshot = NoUser]
            /\ UNCHANGED <<now, secrets, authOp, bookingVars, reviewVars,
                           notificationVars, sessionVars, errorOp>>

\* the destinations clients name
Destinations == {"d1", "d2"}

\* user.favoriteDestinations of a hydrated document: a path the schema does not
\* have is undefined on the document, read here as no entries
FavoritesOf(doc) ==
    IF "favoriteDestinations" \in UserSchemaPaths THEN doc.favoriteDestinations
    ELSE << >>

\* findByIdAndUpdate(id, { $push: { favoriteDestinations: favorite } }): the
\* update is cast against the schema and a path outside it is dropped
PushFavorite(doc, favorite) ==
    IF "favoriteDestinations" \in UserSchemaPaths
    THEN [doc EXCEPT !.favoriteDestinations = Append(@, favorite)]
    ELSE doc

\* findByIdAndUpdate(id, { $pull: { favoriteDestinations: { destinationId } } })
PullFavorite(doc, destinationId) ==
    LET Other(favorite) == favorite.destinationId # destinationId
    IN  IF "favoriteDestinations" \in UserSchemaPaths
        THEN [doc EXCEPT !.favoriteDestinations = SelectSeq(@, Other)]
        ELSE doc

NewFavorite(destinationId, t) ==
    [destinationId |-> destinationId, destinationType |-> "unknown", notes |-> "",
     addedAt |-> t]

\* UserService.getFavorites(userId): data.favorites
getFavorites(userId) ==
    IF FindById(userId) = 0 THEN << >> ELSE FavoritesOf(users[userId])

\* UserService.addFavorite(userId, destinationId); the controller answers 201
addFavorite(userId, destinationId) ==
    LET u == FindById(userId)
    IN  IF u = 0
        THEN [status |-> 404, users |-> users]
        ELSE IF \E i \in DOMAIN FavoritesOf(users[u]) :
                    FavoritesOf(users[u])[i].destinationId = destinationId
        THEN [status |-> 400, users |-> users]
        ELSE [status |-> 201,
              users |-> [users EXCEPT
                            ![u] = PushFavorite(@, NewFavorite(destinationId, now))]]

\* removeFavorite that answers 404 when the destination is not a favourite
removeFavoriteStrict(userId, destinationId) ==
    LET u == FindById(userId)
    IN  IF u = 0
        THEN [status |-> 404, users |-> users]
        ELSE IF \A i \in DOMAIN FavoritesOf(users[u]) :
                    FavoritesOf(users[u])[i].destinationId # destinationId
        THEN [status |-> 404, users |-> users]
        ELSE [status |-> 200,
              users |-> [users EXCEPT ![u] = PullFavorite(@, destinationId)]]

\* UserService.removeFavorite(userId, destinationId)
removeFavorite(userId, destinationId) ==
    LET u == FindById(userId)
    IN  IF u = 0
        THEN [status |-> 404, users |-> users]
        ELSE [status |-> 200,
              users |-> [users EXCEPT ![u] = PullFavorite(@, destinationId)]]

\* what a call of the favourites service leaves behind
FavoriteOp(op, userId, destinationId, status) ==
    [AuthOp(op, NoHeader, << >>, "", status, NoPayload, userId, NoTokens)
        EXCEPT !.arg = destinationId, !.prev = Call(authOp)]

\* a call of userService.addFavorite
AddFavorite ==
    \E userId \in UserIds, destinationId \in Destinations :
        LET result == addFavorite(userId, destinationId)
        IN  /\ users' = result.users
            /\ authOp' = FavoriteOp("addFavorite", userId, destinationId, result.status)
            /\ UNCHANGED <<now, secrets, bookingVars, reviewVars, sideVars>>

\* a call of userService.removeFavorite
RemoveFavorite ==
    \E userId \in UserIds, destinationId \in Destinations :
        LET result == removeFavorite(userId, destinationId)
        IN  /\ users' = result.users
            /\ authOp' = FavoriteOp("removeFavorite", userId, destinationId,
                                    result.status)
            /\ UNCHANGED <<now, secrets, bookingVars, reviewVars, sideVars>>

\* the user whose favourites overlapping calls add to
FavoriteTargets == {1}

\* user.favoriteDestinations?.find(fav => fav.destinationId === destinationId)
existingFavorite(doc, destinationId) ==
    \E i \in DOMAIN FavoritesOf(doc) :
        FavoritesOf(doc)[i].destinationId = destinationId

\* addFavorite up to its first await: findById has answered and the copy it
\* returned is searched for the destination
BeginAddFavorite ==
    \E c \in CallIds, userId \in FavoriteTargets, destinationId \in Destinations :
        LET u == FindById(userId)
            call == [IdleCall EXCEPT
                        !.op = "addFavorite", !.userId = userId,
                        !.arg = destinationId,
                        !.overlaps = \E d \in CallIds \ {c} :
                                        /\ calls[d].pc = "read"
                                        /\ calls[d].op = "addFavorite"
                                        /\ calls[d].userId = userId
                                        /\ calls[d].arg = destinationId]
        IN  /\ calls[c].pc = "idle"
            /\ calls' = [calls EXCEPT ![c] =
                            IF u = 0
                            THEN [call EXCEPT !.pc = "done", !.status = 404]
                            ELSE IF existingFavorite(users[u], destinationId)
                            THEN [call EXCEPT !.pc = "done", !.status = 400]
                            ELSE [call EXCEPT !.pc = "read"]]
            /\ UNCHANGED <<now, bookingVars, authVars, reviewVars, notificationVars,
                           sessionVars, errorOp>>

\* addFavorite from its first await: the $push, then the answer
FinishAddFavorite ==
    \E c \in CallIds :
        LET u == calls[c].userId
        IN  /\ calls[c].pc = "read"
            /\ calls[c].op = "addFavorite"
            /\ users' = [users EXCEPT
                            ![u] = PushFavorite(@, NewFavorite(calls[c].arg, now))]
            /\ calls' = [calls EXCEPT ![c].pc = "done", ![c].status = 201]
            /\ UNCHANGED <<now, secrets, authOp, bookingVars, reviewVars,
                           notificationVars, sessionVars, errorOp>>

\* a call that has answered is over, and another one can start
ReturnCall ==
    \E c \in CallIds :
        /\ calls[c].pc = "done"
        /\ calls' = [calls EXCEPT ![c] = IdleCall]
        /\ UNCHANGED <<now, bookingVars, authVars, reviewVars, notificationVars,
                       sessionVars, errorOp>>

-----------------------------------------------------------------------------
(* Review: src/src/modules/reviews/models/Review.ts                        *)
(* Ratings are counted in tenths: 42 is 4.2                                *)

MinRating == 10
MaxRating == 50

RatingFields == {"value", "service", "cleanliness", "location", "communication"}

Ratings(value, service, cleanliness, location, communication) ==
    [value |-> value, service |-> service, cleanliness |-> cleanliness,
     location |-> location, communication |-> communication]

\* the sub-ratings clients send: {4,5,3,5,4} with mean 4.2, a mean that needs
\* rounding (1.66), and a 0, which the schema refuses
RatingChoices ==
    { Ratings(40, 50, 30, 50, 40),
      Ratings(10, 10, 10, 10, 43),
      Ratings(0, 50, 50, 50, 50) }

\* the users who write reviews
Reviewers == {1, 2}

\* the comments clients send; the schema wants 10 to 1000 characters
CommentChoices == {"Great tour, thanks", "Well organised trip", "too short"}

\* the overall rating clients send: none, 3.0, or 9.9
OverallChoices == {NoNumber, 30, 99}

RatingSum(rating) ==
    rating.value + rating.service + rating.cleanliness + rating.location
        + rating.communication

\* a slip of calculateAverageRating: Math.floor instead of Math.round
calculateAverageRatingFloor(rating) == RatingSum(rating) \div 5

\* calculateAverageRating(): Math.round((sum / 5) * 10) / 10, in tenths
calculateAverageRating(rating) == (2 * RatingSum(rating) + 5) \div 10

\* reviewSchema.pre('save')
ReviewPreSave(doc, ratingModified) ==
    IF ratingModified
    THEN [doc EXCEPT !.rating.overall = calculateAverageRating(doc.rating)]
    ELSE doc

\* the schema's validators on the rating, run before the pre('save') hooks
ReviewValid(doc) ==
    /\ doc.rating.overall # NoNumber
    /\ doc.rating.overall >= MinRating
    /\ doc.rating.overall <= MaxRating
    /\ \A f \in RatingFields : doc.rating[f] >= MinRating /\ doc.rating[f] <= MaxRating
    /\ doc.comment # "too short"

\* no such index: every booking reference is accepted
ReviewBookingFreeNoIndex(booking, except) == TRUE

\* reviewSchema.index({ booking: 1 }, { unique: true })
ReviewBookingFree(booking, except) ==
    \A j \in DOMAIN reviews : j # except => reviews[j].booking # booking

WithOverall(rating, overall) ==
    [overall |-> overall, value |-> rating.value, service |-> rating.service,
     cleanliness |-> rating.cleanliness, location |-> rating.location,
     communication |-> rating.communication]

NoReviewOp ==
    [op |-> None, review |-> 0, user |-> 0, booking |-> 0, overall |-> NoNumber,
     valid |-> FALSE, status |-> 0, editable |-> FALSE]

\* moderationStatus: the enum and its default
ModerationStatus == {"pending", "approved", "rejected", "flagged"}
DefaultModerationStatus == "approved"

\* the hours after creation within which the author may edit
EditWindowHours == 24

\* the outcome of save(): validation, the pre('save') hook, then the write
\* under the unique index; errors go through globalErrorHandler
ReviewSaveStatus(doc, saved, except, okStatus) ==
    IF ~ReviewValid(doc) THEN handleMongooseError(ValidationError)
    ELSE IF ~ReviewBookingFree(saved.booking, except)
    THEN handleMongooseError(DuplicateKey)
    ELSE okStatus

\* new Review(data).save()
CreateReview ==
    \E user \in Reviewers, booking \in 1..MaxBookingRefs,
       rating \in RatingChoices, overall \in OverallChoices :
        LET doc == [user |-> user, booking |-> booking,
                    rating |-> WithOverall(rating, overall),
                    comment |-> "Great tour, thanks",
                    createdAt |-> now,
                    moderationStatus |-> DefaultModerationStatus,
                    helpfulVotes |-> << >>]
            saved == ReviewPreSave(doc, TRUE)
            status == ReviewSaveStatus(doc, saved, 0, 201)
        IN  /\ Len(reviews) < MaxReviews
            /\ reviews' = IF status = 201 THEN Append(reviews, saved) ELSE reviews
            /\ reviewOp' = [op |-> "create", review |-> Len(reviews) + 1,
                            user |-> user, booking |-> booking, overall |-> overall,
                            valid |-> ReviewValid(doc), status |-> status,
                            editable |-> FALSE]
            /\ UNCHANGED <<now, bookingVars, authVars, sideVars>>

\* doc.rating = {...}; doc.save(): the author edits the sub-ratings
SaveRating ==
    \E r \in DOMAIN reviews, rating \in RatingChoices, overall \in OverallChoices :
        LET old == reviews[r]
            doc == [old EXCEPT !.rating =
                        WithOverall(rating, IF overall = NoNumber
                                            THEN old.rating.overall ELSE overall)]
            saved == ReviewPreSave(doc, doc.rating # old.rating)
            status == ReviewSaveStatus(doc, saved, r, 200)
        IN  /\ reviews' = IF status = 200 THEN [reviews EXCEPT ![r] = saved]
                          ELSE reviews
            /\ reviewOp' = [op |-> "saveRating", review |-> r, user |-> old.user,
                            booking |-> old.booking, overall |-> overall,
                            valid |-> ReviewValid(doc), status |-> status,
                            editable |-> FALSE]
            /\ UNCHANGED <<now, bookingVars, authVars, sideVars>>

\* doc.comment = ...; doc.save(): a save that leaves the rating alone
SaveComment ==
    \E r \in DOMAIN reviews, comment \in CommentChoices :
        LET old == reviews[r]
            doc == [old EXCEPT !.comment = comment]
            saved == ReviewPreSave(doc, FALSE)
            status == ReviewSaveStatus(doc, saved, r, 200)
        IN  /\ reviews' = IF status = 200 THEN [reviews EXCEPT ![r] = saved]
                          ELSE reviews
            /\ reviewOp' = [op |-> "saveComment", review |-> r, user |-> old.user,
                            booking |-> old.booking, overall |-> NoNumber,
                            valid |-> ReviewValid(doc), status |-> status,
                            editable |-> FALSE]
            /\ UNCHANGED <<now, bookingVars, authVars, sideVars>>

\* canBeEdited(userId)
canBeEdited(doc, userId, t) ==
    /\ doc.user = userId
    /\ t - doc.createdAt <= EditWindowHours
    /\ doc.moderationStatus = "approved"

\* isHelpful(userId)
isHelpful(doc, userId) ==
    \E i \in DOMAIN doc.helpfulVotes : doc.helpfulVotes[i].user = userId

\* addHelpfulVote that pushes without asking isHelpful
addHelpfulVoteAlways(doc, userId, t) ==
    [doc EXCEPT !.helpfulVotes = Append(@, [user |-> userId, votedAt |-> t])]

\* addHelpfulVote(userId)
addHelpfulVote(doc, userId, t) ==
    IF ~isHelpful(doc, userId)
    THEN [doc EXCEPT !.helpfulVotes = Append(@, [user |-> userId, votedAt |-> t])]
    ELSE doc

\* removeHelpfulVote(userId)
removeHelpfulVote(doc, userId) ==
    LET Other(vote) == vote.user # userId
    IN  [doc EXCEPT !.helpfulVotes = SelectSeq(@, Other)]

\* review.canBeEdited(userId), read at the current time
AskCanBeEdited ==
    \E r \in DOMAIN reviews, userId \in Reviewers :
        /\ reviewOp' = [op |-> "canBeEdited", review |-> r, user |-> userId,
                        booking |-> reviews[r].booking, overall |-> NoNumber,
                        valid |-> TRUE, status |-> 200,
                        editable |-> canBeEdited(reviews[r], userId, now)]
        /\ UNCHANGED <<now, reviews, bookingVars, authVars, sideVars>>

\* review.comment = ...; review.save() for a requesting user: the save path
\* (validation, pre('save'), write) is all that runs
EditReview ==
    \E r \in DOMAIN reviews, userId \in Reviewers, comment \in CommentChoices :
        LET old == reviews[r]
            doc == [old EXCEPT !.comment = comment]
            saved == ReviewPreSave(doc, FALSE)
            status == ReviewSaveStatus(doc, saved, r, 200)
        IN  /\ reviews' = IF status = 200 THEN [reviews EXCEPT ![r] = saved]
                          ELSE reviews
            /\ reviewOp' = [op |-> "edit", review |-> r, user |-> userId,
                            booking |-> old.booking, overall |-> NoNumber,
                            valid |-> ReviewValid(doc), status |-> status,
                            editable |-> canBeEdited(old, userId, now)]
            /\ UNCHANGED <<now, bookingVars, authVars, sideVars>>

\* review.addHelpfulVote(userId); review.save()
AddHelpfulVote ==
    \E r \in DOMAIN reviews, userId \in Reviewers :
        /\ reviews' = [reviews EXCEPT ![r] = addHelpfulVote(@, userId, now)]
        /\ reviewOp' = [op |-> "addHelpfulVote", review |-> r, user |-> userId,
                        booking |-> reviews[r].booking, overall |-> NoNumber,
                        valid |-> TRUE, status |-> 200, editable |-> FALSE]
        /\ UNCHANGED <<now, bookingVars, authVars, sideVars>>

\* review.removeHelpfulVote(userId); review.save()
RemoveHelpfulVote ==
    \E r \in DOMAIN reviews, userId \in Reviewers :
        /\ reviews' = [reviews EXCEPT ![r] = removeHelpfulVote(@, userId)]
        /\ reviewOp' = [op |-> "removeHelpfulVote", review |-> r, user |-> userId,
                        booking |-> reviews[r].booking, overall |-> NoNumber,
                        valid |-> TRUE, status |-> 200, editable |-> FALSE]
        /\ UNCHANGED <<now, bookingVars, authVars, sideVars>>

-----------------------------------------------------------------------------
(* Specifications *)

\* no notifications, no sessions, no call in progress
InitSide ==
    /\ notifications = << >>
    /\ notificationOp = NoNotificationOp
    /\ sessions = << >>
    /\ sessionOp = NoSessionOp
    /\ calls = [c \in CallIds |-> IdleCall]
    /\ errorOp = NoErrorOp

Init ==
    /\ now = 0
    /\ bookings = << >>
    /\ bookingOp = NoBookingOp
    /\ users = << >>
    /\ secrets = << >>
    /\ authOp = NoAuthOp
    /\ reviews = << >>
    /\ reviewOp = NoReviewOp
    /\ InitSide

NextBooking ==
    \/ CreateBooking
    \/ SaveStatus
    \/ SaveStatusUpdate
    \/ SaveGuests
    \/ Tick

SpecBooking == Init /\ [][NextBooking]_vars

\* the operations that write a booking, with the clock standing still
NextHistory ==
    \/ CreateBooking
    \/ SaveStatus
    \/ SaveStatusUpdate
    \/ SaveGuests

SpecHistory == Init /\ [][NextHistory]_vars

\* the requested dates of the stored booking the two windows are read on:
\* today, around 24 hours ahead and around 48 hours ahead
WindowDates ==
    {0, CancelWindowHours, CancelWindowHours + 1, CancelWindowHours + 2,
     ModifyWindowHours, ModifyWindowHours + 1, ModifyWindowHours + 2}

\* a booking of one adult stored with the given status and requested date
StoredBooking(status, date) ==
    [user |-> 1,
     status |-> status,
     statusHistory |-> IF status = PENDING THEN << >>
                       ELSE <<StatusEntry(status, 0, 1)>>,
     dateRequested |-> date,
     guests |-> [adults |-> 1, children |-> 0, infants |-> 0],
     totalGuests |-> 1,
     confirmationCode |-> <<"TOL", "client">>]

\* one stored booking of any status and date; the clock then runs
InitWindow ==
    /\ now = 0
    /\ \E status \in BookingStatus, date \in WindowDates :
           bookings = <<StoredBooking(status, date)>>
    /\ bookingOp = NoBookingOp
    /\ users = << >>
    /\ secrets = << >>
    /\ authOp = NoAuthOp
    /\ reviews = << >>
    /\ reviewOp = NoReviewOp
    /\ InitSide

NextWindow ==
    \/ AskCanBeCancelled
    \/ AskCanBeModified
    \/ Tick

SpecWindow == InitWindow /\ [][NextWindow]_vars

\* the writes of the guest counts
NextGuests ==
    \/ CreateBooking
    \/ SaveGuests
    \/ UpdateGuestsDirect

SpecGuests == Init /\ [][NextGuests]_vars

\* the writes of the confirmation code
NextCode ==
    \/ CreateBooking
    \/ SaveCode

SpecCode == Init /\ [][NextCode]_vars

\* the favourites service, on registered users
NextFavorites ==
    \/ Register
    \/ AddFavorite
    \/ RemoveFavorite

SpecFavorites == Init /\ [][NextFavorites]_vars

\* the preferences service, on registered users
NextPreferences ==
    \/ Register
    \/ UpdatePreferences

SpecPreferences == Init /\ [][NextPreferences]_vars

\* calls of updatePreferences that overlap
NextConcurrentPreferences ==
    \/ Register
    \/ BeginUpdatePreferences
    \/ FinishUpdatePreferences

SpecConcurrentPreferences == Init /\ [][NextConcurrentPreferences]_vars

\* calls of addFavorite that overlap
NextConcurrentFavorites ==
    \/ Register
    \/ BeginAddFavorite
    \/ FinishAddFavorite
    \/ ReturnCall

SpecConcurrentFavorites == Init /\ [][NextConcurrentFavorites]_vars

\* the routes that take or give tokens
NextLogout ==
    \/ Register
    \/ VerifyTokenRoute
    \/ RefreshTokenRoute
    \/ Logout

SpecLogout == Init /\ [][NextLogout]_vars

\* accounts that are deleted, registered again and signed in to
NextDeleted ==
    \/ Register
    \/ DeleteUser
    \/ Login
    \/ ResetPassword

SpecDeleted == Init /\ [][NextDeleted]_vars

NextAuth ==
    \/ Register
    \/ Login
    \/ ResetPassword

SpecAuth == Init /\ [][NextAuth]_vars

NextToken ==
    \/ Register
    \/ VerifyTokenRoute
    \/ Me
    \/ DeleteUserRoute

SpecToken == Init /\ [][NextToken]_vars

NextMe ==
    \/ Register
    \/ GetFavoritesRoute
    \/ GetUserStatsRoute
    \/ UpdateAvatarRoute
    \/ ChangePasswordRoute

SpecMe == Init /\ [][NextMe]_vars

\* the creation times of the stored review: now, and around 24 hours ago
ReviewAges == {0, EditWindowHours - 1, EditWindowHours, EditWindowHours + 1}

\* a review of user 1 stored with the given moderation status, age hours ago
StoredReview(moderationStatus, age) ==
    [user |-> 1, booking |-> 1,
     rating |-> WithOverall(Ratings(40, 50, 30, 50, 40), 42),
     comment |-> "Great tour, thanks",
     createdAt |-> 0 - age,
     moderationStatus |-> moderationStatus,
     helpfulVotes |-> << >>]

\* one stored review of any moderation status and age; the clock then runs
InitReviewDoc ==
    /\ now = 0
    /\ bookings = << >>
    /\ bookingOp = NoBookingOp
    /\ users = << >>
    /\ secrets = << >>
    /\ authOp = NoAuthOp
    /\ \E moderationStatus \in ModerationStatus, age \in ReviewAges :
           reviews = <<StoredReview(moderationStatus, age)>>
    /\ reviewOp = NoReviewOp
    /\ notifications = << >>
    /\ notificationOp = NoNotificationOp
    /\ sessions = << >>
    /\ sessionOp = NoSessionOp
    /\ calls = [c \in CallIds |-> IdleCall]
    /\ errorOp = NoErrorOp

\* editing a stored review
NextEdit ==
    \/ AskCanBeEdited
    \/ EditReview
    \/ Tick

SpecEdit == InitReviewDoc /\ [][NextEdit]_vars

\* helpful votes on a stored review
NextVotes ==
    \/ AddHelpfulVote
    \/ RemoveHelpfulVote
    \/ Tick

SpecVotes == InitReviewDoc /\ [][NextVotes]_vars

\* the expiry dates of the stored notification: none, and around now
ExpiryDates == {NoNumber, 0, 1, 2}

\* a notification stored before the clock starts, nothing sent yet
StoredNotification(expiresAt) ==
    [recipient |-> 1,
     channels |-> [channel \in Channels |-> NewChannel],
     expiresAt |-> expiresAt]

\* one stored notification with any expiry date; the clock then runs
InitNotification ==
    /\ now = 0
    /\ bookings = << >>
    /\ bookingOp = NoBookingOp
    /\ users = << >>
    /\ secrets = << >>
    /\ authOp = NoAuthOp
    /\ reviews = << >>
    /\ reviewOp = NoReviewOp
    /\ \E expiresAt \in ExpiryDates : notifications = <<StoredNotification(expiresAt)>>
    /\ notificationOp = NoNotificationOp
    /\ sessions = << >>
    /\ sessionOp = NoSessionOp
    /\ calls = [c \in CallIds |-> IdleCall]
    /\ errorOp = NoErrorOp

NextNotification ==
    \/ AskShouldBeSent
    \/ MarkAsSent
    \/ Tick

SpecNotification == InitNotification /\ [][NextNotification]_vars

\* the server started in any environment, nothing stored
InitErrors ==
    /\ now = 0
    /\ bookings = << >>
    /\ bookingOp = NoBookingOp
    /\ users = << >>
    /\ secrets = << >>
    /\ authOp = NoAuthOp
    /\ reviews = << >>
    /\ reviewOp = NoReviewOp
    /\ notifications = << >>
    /\ notificationOp = NoNotificationOp
    /\ sessions = << >>
    /\ sessionOp = NoSessionOp
    /\ calls = [c \in CallIds |-> IdleCall]
    /\ \E nodeEnv \in NodeEnvs : errorOp = [NoErrorOp EXCEPT !.nodeEnv = nodeEnv]

NextErrors == HandleError

SpecErrors == InitErrors /\ [][NextErrors]_vars

NextSessions ==
    \/ CreateSession
    \/ RevokeSession
    \/ RevokeAllUserSessions

SpecSessions == Init /\ [][NextSessions]_vars

NextReview ==
    \/ CreateReview
    \/ SaveRating
    \/ SaveComment

SpecReview == Init /\ [][NextReview]_vars

-----------------------------------------------------------------------------
(* Booking lifecycle claims: C1 to C3 under SpecBooking, C4 under SpecHistory *)

AllowedTransitions ==
    { <<PENDING, CONFIRMED>>, <<CONFIRMED, COMPLETED>>,
      <<PENDING, CANCELLED>>, <<CONFIRMED, CANCELLED>> }

\* C1: no save changes a booking's status other than along
\* pending -> confirmed -> completed, or to cancelled from pending or confirmed;
\* completed and cancelled are terminal.
C1_OnlyLifecycleTransitions ==
    [][\A b \in DOMAIN bookings :
          bookings'[b].status # bookings[b].status
              => <<bookings[b].status, bookings'[b].status>> \in AllowedTransitions]_vars

\* C2: a save that changes the status of a pending or confirmed booking to
\* cancelled is rejected and changes nothing when the requested date is 24 hours
\* or less away, and otherwise succeeds and appends a cancelled history entry.
C2_CancelGatedBy24Hours ==
    [][\A b \in DOMAIN bookings :
          ( /\ now' = now
            /\ bookingOp'.op = "saveStatus"
            /\ bookingOp'.booking = b
            /\ bookingOp'.status = CANCELLED
            /\ bookings[b].status \in {PENDING, CONFIRMED} )
          => IF HoursUntilBooking(bookings[b], now) <= CancelWindowHours
             THEN ~bookingOp'.ok /\ bookings'[b] = bookings[b]
             ELSE /\ bookingOp'.ok
                  /\ bookings'[b].status = CANCELLED
                  /\ Len(bookings'[b].statusHistory) = Len(bookings[b].statusHistory) + 1
                  /\ bookings'[b].statusHistory[Len(bookings'[b].statusHistory)].status
                         = CANCELLED]_vars

\* C3: every save that changes a booking's status appends exactly one history
\* entry holding the new status, the time of the change and the acting user.
C3_StatusChangeRecordsActor ==
    [][\A b \in DOMAIN bookings :
          (now' = now /\ bookings'[b].status # bookings[b].status)
          => bookings'[b].statusHistory =
                 Append(bookings[b].statusHistory,
                        StatusEntry(bookings'[b].status, now, bookingOp'.actor))]_vars

IsPrefix(s, t) == Len(s) <= Len(t) /\ SubSeq(t, 1, Len(s)) = s

\* C4: statusHistory is append-only: across every operation on a booking the
\* history before is a prefix of the history after, and no booking disappears.
C4_StatusHistoryAppendOnly ==
    [][\A b \in DOMAIN bookings :
          /\ b \in DOMAIN bookings'
          /\ IsPrefix(bookings[b].statusHistory, bookings'[b].statusHistory)]_vars

\* a booking whose history grew twice, by a status change and by addStatusUpdate
C4_Witness ==
    \E b \in DOMAIN bookings :
        /\ Len(bookings[b].statusHistory) >= 2
        /\ bookings[b].statusHistory[1] # bookings[b].statusHistory[2]
        /\ bookingOp.op \in {"saveStatus", "addStatusUpdate"}

\* C11: after any write that changes a guest count, by save or by direct
\* update, totalGuests equals adults + children + infants, whatever totalGuests
\* the writer supplied.
C11_TotalGuestsIsSum ==
    \A b \in DOMAIN bookings :
        bookings[b].totalGuests =
            bookings[b].guests.adults + bookings[b].guests.children
                + bookings[b].guests.infants

\* C12: the confirmation code of a stored booking never changes: after every
\* later save, whatever field was assigned, it is the code of the first save.
C12_ConfirmationCodeImmutable ==
    [][\A b \in DOMAIN bookings :
          bookings'[b].confirmationCode = bookings[b].confirmationCode]_vars

Collides(op) ==
    /\ op.op \in {"create", "saveCode"}
    /\ op.code # NoCode
    /\ \E j \in DOMAIN bookings :
           j # op.booking /\ bookings[j].confirmationCode = op.code

\* C14: a valid write whose confirmation code collides with a stored booking
\* persists no second booking with that code and, retried with a regenerated
\* code, ends with the booking stored under a distinct code.
C14_CollisionRetriedWithNewCode ==
    [][(Collides(bookingOp') /\ bookingOp'.http # 400)
          => LET b == bookingOp'.booking
             IN  /\ b \in DOMAIN bookings'
                 /\ bookings'[b].confirmationCode # bookingOp'.code
                 /\ b \in DOMAIN bookings
                        => bookings'[b].confirmationCode # bookings[b].confirmationCode
                 /\ \A j \in DOMAIN bookings' :
                        j # b => bookings'[j].confirmationCode
                                     # bookings'[b].confirmationCode]_vars

\* C15: canBeCancelled() is true exactly when the status is pending or
\* confirmed and the requested date is more than 24 hours after now: false at
\* exactly 24 hours, for past dates and for cancelled or completed bookings.
C15_CanBeCancelledWindow ==
    [][(now' = now /\ bookingOp'.op = "canBeCancelled")
          => LET doc == bookings[bookingOp'.booking]
             IN  bookingOp'.ok <=> ( /\ doc.status \in {"pending", "confirmed"}
                                    /\ doc.dateRequested - now > 24 )]_vars

\* asked at exactly 24 hours before the date of a confirmed booking: false
C15_Witness ==
    /\ bookingOp.op = "canBeCancelled"
    /\ ~bookingOp.ok
    /\ bookings[bookingOp.booking].status = CONFIRMED
    /\ bookings[bookingOp.booking].dateRequested - now = 24
    /\ now > 0

\* C16: canBeModified() is true exactly when the status is pending or
\* confirmed and the requested date is more than 48 hours after now: false at
\* exactly 48 hours; whenever it is true canBeCancelled() is true as well.
C16_CanBeModifiedWindow ==
    [][(now' = now /\ bookingOp'.op = "canBeModified")
          => LET doc == bookings[bookingOp'.booking]
             IN  /\ bookingOp'.ok <=> ( /\ doc.status \in {"pending", "confirmed"}
                                        /\ doc.dateRequested - now > 48 )
                 /\ bookingOp'.ok => canBeCancelled(doc, now)]_vars

\* asked at exactly 48 hours before the date of a pending booking: false
C16_Witness ==
    /\ bookingOp.op = "canBeModified"
    /\ ~bookingOp.ok
    /\ bookings[bookingOp.booking].status = PENDING
    /\ bookings[bookingOp.booking].dateRequested - now = 48
    /\ now > 0

-----------------------------------------------------------------------------
(* Authentication claims: C5 under SpecAuth, C6 and C7 under SpecToken *)

\* C5: a login with the email and password of a successful registration
\* succeeds and returns the access/refresh token pair of that user.
C5_LoginAfterRegister ==
    \A u \in DOMAIN users :
        ( /\ authOp.op = "login"
          /\ users[u].email = authOp.email
          /\ users[u].isActive
          /\ secrets[u] = [password |-> authOp.password, setBy |-> "register"] )
        => /\ authOp.status = 200
           /\ authOp.tokens = IssueTokens(u, now)

\* temp_access_<id of an existing, active user>_<timestamp>
NamesActiveUser(token, u) ==
    /\ u \in DOMAIN users
    /\ users[u].isActive
    /\ Len(token) >= 6
    /\ SubSeq(token, 1, 6) = <<"temp", Sep, "access", Sep, ToString(u), Sep>>
    /\ \A k \in 7..Len(token) : token[k] # Sep

\* C6: a token is accepted only if it reads temp_access_<userId>_<timestamp>
\* and names an existing, active user, whose data is then attached; every other
\* token gets a 401 and no user data.
C6_VerifyTokenAcceptsOnlyActiveAccess ==
    authOp.op \in {"verifyToken", "me"} =>
        LET h == authOp.header
            good == h.present /\ \E u \in DOMAIN users : NamesActiveUser(h.token, u)
        IN  /\ authOp.reqUser # NoPayload
                => /\ good
                   /\ NamesActiveUser(h.token, authOp.reqUser.userId)
                   /\ authOp.reqUser = Payload(authOp.reqUser.userId)
            /\ ~good => authOp.status = 401 /\ authOp.reqUser = NoPayload

\* the well-formed access token of a soft-deleted user was presented and refused
C6_Witness ==
    /\ authOp.op \in {"verifyToken", "me"}
    /\ authOp.header.present
    /\ \E u \in DOMAIN users :
           /\ authOp.header.token = AccessToken(u, 0)
           /\ ~users[u].isActive
    /\ authOp.status = 401
    /\ authOp.reqUser = NoPayload

\* C7: DELETE /users/:id is carried out only for a caller whose role is admin
\* or super_admin; any other authenticated caller gets a 403.
C7_DeleteIsAdminOnly ==
    ( /\ authOp.op = "deleteUser"
      /\ authOp.reqUser # NoPayload
      /\ authOp.reqUser.role \notin {ADMIN, SUPER_ADMIN} )
    => authOp.status = 403

MeOps == {"getFavorites", "getUserStats", "updateAvatar", "changePassword"}

\* C8: an authenticated request to a /users/me/* endpoint reads or modifies the
\* record of the token's user, never another one, and never answers 404 while
\* that user exists.
C8_MeRoutesActOnTokenUser ==
    ( /\ authOp.op \in MeOps
      /\ authOp.reqUser # NoPayload )
    => /\ authOp.actedOn \in {0, authOp.reqUser.userId}
       /\ authOp.status # 404

\* C21: canBeEdited(userId) is true exactly when the user is the author, the
\* review is at most 24 hours old and its moderation status is approved; an
\* edit attempted when it is false is rejected with an authorization error and
\* leaves the review as it was.
C21_EditOnlyWhenEditable ==
    [][ /\ (now' = now /\ reviewOp'.op = "canBeEdited")
           => LET doc == reviews[reviewOp'.review]
              IN  reviewOp'.editable <=> ( /\ doc.user = reviewOp'.user
                                          /\ now - doc.createdAt <= 24
                                          /\ doc.moderationStatus = "approved" )
        /\ ( /\ now' = now
             /\ reviewOp'.op = "edit"
             /\ ~canBeEdited(reviews[reviewOp'.review], reviewOp'.user, now) )
           => /\ reviewOp'.status \in {401, 403}
              /\ reviews' = reviews ]_vars

C24_OnlyOperationalErrorsShown ==
    (errorOp.thrown /\ errorOp.nodeEnv # "development")
        => LET err == errorOp.err
               response == errorOp.response
               datastore ==
                   \/ err.code = "DATABASE_ERROR"
                   \/ err.name \in {"MongoServerError", "MongoNetworkError"}
               operational == err.isAppError /\ err.isOperational /\ ~datastore
           IN  IF operational
               THEN /\ response.status = err.statusCode
                    /\ response.message = err.message
                    /\ response.code = err.code
               ELSE /\ response.status = 500
                    /\ response.message = "Something went wrong"
                    /\ response.code = "INTERNAL_SERVER_ERROR"
                    /\ response.details = "none"
                    /\ ~response.stack

\* the refresh token issued together with an access token
RefreshOf(token) == [token EXCEPT ![3] = "refresh"]

\* C25: after POST /auth/logout has succeeded, the access token of that request
\* is rejected by verifyToken and the refresh token issued with it is rejected
\* by refreshToken.
C25_LogoutInvalidatesTokens ==
    (authOp.op = "logout" /\ authOp.status = 200)
        => /\ verifyToken(authOp.header.token) = NoPayload
           /\ refreshToken(RefreshOf(authOp.header.token)).status = 401

\* a token that was issued as the named kind: temp_<kind>_...
IssuedAs(token, kind) == Len(token) >= 3 /\ token[1] = "temp" /\ token[3] = kind

\* C30: verifyToken never accepts a token issued as a refresh token and
\* refreshToken never accepts a token issued as an access token; each answers
\* 401, attaches no user data and issues no tokens.
C30_TokenKindsNotInterchangeable ==
    /\ \A i \in UserIds, t \in 0..MaxNow :
          /\ verifyToken(RefreshToken(i, t)) = NoPayload
          /\ refreshToken(AccessToken(i, t)).status = 401
          /\ refreshToken(AccessToken(i, t)).tokens = NoTokens
    /\ ( /\ authOp.op \in {"verifyToken", "logout"}
         /\ IssuedAs(authOp.header.token, "refresh") )
          => authOp.status = 401 /\ authOp.reqUser = NoPayload
    /\ ( /\ authOp.op = "refresh"
         /\ IssuedAs(authOp.header.token, "access") )
          => authOp.status = 401 /\ authOp.tokens = NoTokens

\* the access token of a registered, active user was sent to /auth/refresh and
\* answered 401, and that user's refresh token sent as a bearer is refused too
C30_Witness ==
    /\ authOp.op = "refresh"
    /\ authOp.header.token = AccessToken(1, 0)
    /\ authOp.status = 401
    /\ 1 \in DOMAIN users
    /\ users[1].isActive
    /\ verifyToken(AccessToken(1, 0)) # NoPayload
    /\ refreshToken(RefreshToken(1, 0)).status = 200

\* C27: the revokeReason of every stored session is unset or one of the eight
\* reasons of the closed set, whether the session was revoked through revoke()
\* or through revokeAllUserSessions() with or without a reason.
C27_RevokeReasonInClosedSet ==
    \A s \in DOMAIN sessions :
        sessions[s].revokeReason \in
            {"none", "user_logout", "admin_revoke", "security_breach",
             "suspicious_activity", "password_change", "account_deactivation",
             "multiple_sessions", "expired"}

\* the email a soft-deleted user registered with: what follows the prefixes
OriginalEmail(user) == SubSeq(user.email, Len(user.email), Len(user.email))

\* a user deleted by deleteUser and still inactive
IsDeleted(u) == ~users[u].isActive /\ users[u].email[1] = "deleted"

\* every token issued to u is refused by verifyToken and by refreshToken
TokensRefused(u) ==
    \A t \in 0..MaxNow :
        /\ verifyToken(AccessToken(u, t)) = NoPayload
        /\ refreshToken(RefreshToken(u, t)).status = 401
        /\ refreshToken(RefreshToken(u, t)).tokens = NoTokens

\* C28: once deleteUser(u) has succeeded and while u stays inactive, every
\* access and refresh token issued to u is rejected with 401, and a login with
\* u's original email and correct password does not succeed.
C28_DeletedUserLockedOut ==
    \A u \in DOMAIN users :
        IsDeleted(u)
            => /\ TokensRefused(u)
               /\ ( /\ authOp.op = "login"
                    /\ authOp.email = OriginalEmail(users[u])
                    /\ authOp.password = secrets[u].password )
                     => authOp.status # 200

\* C28, amended: once deleteUser(u) has succeeded and while u stays inactive,
\* every access and refresh token issued to u is rejected with 401 and no login
\* signs u in; a login with u's original email is answered 401 unless another
\* account holds that email by then, and that account is the one signed in.
C28_DeletedUserNeverSignedIn ==
    \A u \in DOMAIN users :
        IsDeleted(u)
            => /\ TokensRefused(u)
               /\ (authOp.op = "login" /\ authOp.status = 200)
                     => /\ authOp.actedOn # u
                        /\ users[authOp.actedOn].isActive
                        /\ users[authOp.actedOn].email = authOp.email
               /\ ( /\ authOp.op = "login"
                    /\ authOp.email = OriginalEmail(users[u])
                    /\ FindByEmail(authOp.email) = 0 )
                     => authOp.status = 401

\* the first user was deleted, and a login with the email and the password
\* that user registered with has just been refused
C28_Witness ==
    /\ 1 \in DOMAIN users
    /\ IsDeleted(1)
    /\ authOp.op = "login"
    /\ authOp.email = OriginalEmail(users[1])
    /\ authOp.password = secrets[1].password
    /\ authOp.status = 401
    /\ FindByEmail(authOp.email) = 0

-----------------------------------------------------------------------------
(* User service claims: C17 under SpecToken, C18 and C19 under SpecFavorites, *)
(* C20 under SpecPreferences *)

\* C17: when deleteUser(id) succeeds on an existing user, that user's record
\* still exists with isActive false and an email different from the one it had
\* before, and the record of every other user is as it was.
C17_DeleteIsSoft ==
    [][(authOp'.op = "deleteUser" /\ authOp'.status = 200)
          => LET u == authOp'.actedOn
             IN  /\ u \in DOMAIN users
                 /\ Len(users') = Len(users)
                 /\ ~users'[u].isActive
                 /\ users'[u].email # users[u].email
                 /\ \A v \in DOMAIN users : v # u => users'[v] = users[v]]_vars

\* one of two users has just been deleted; the other is still active
C17_Witness ==
    /\ authOp.op = "deleteUser"
    /\ authOp.status = 200
    /\ Len(users) = 2
    /\ ~users[authOp.actedOn].isActive
    /\ users[authOp.actedOn].email[1] = "deleted"
    /\ \E v \in DOMAIN users : v # authOp.actedOn /\ users[v].isActive

\* C18: addFavorite of a destination the user already has is rejected with a
\* 400 and leaves the list as it was, so no list ever holds two entries with
\* the same destinationId.
C18_DuplicateFavoriteRejected ==
    /\ ( /\ authOp.op = "addFavorite"
         /\ authOp.prev = [op |-> "addFavorite", arg |-> authOp.arg,
                           status |-> 201, actedOn |-> authOp.actedOn] )
          => authOp.status = 400
    /\ \A u \in DOMAIN users :
          \A i, j \in DOMAIN getFavorites(u) :
              getFavorites(u)[i].destinationId = getFavorites(u)[j].destinationId
                  => i = j

PreferenceValue(preferences, field) ==
    CASE field = "language" -> <<preferences.language>>
      [] field = "currency" -> <<preferences.currency>>
      [] field = "emailNotifications" -> <<preferences.notifications.email>>
      [] field = "pushNotifications" -> <<preferences.notifications.push>>
      [] field = "smsNotifications" -> <<preferences.notifications.sms>>

\* C20: updatePreferences is a partial merge: whichever subset of language,
\* currency, emailNotifications, pushNotifications and smsNotifications is
\* supplied, exactly the supplied fields take the supplied values (a supplied
\* false included) and every omitted field keeps the value it had.
C20_SuppliedFieldsOverwrite ==
    [][(authOp'.op = "updatePreferences" /\ authOp'.status = 200)
          => LET u == authOp'.actedOn
                 dto == authOp'.request
             IN  \A field \in PreferenceFields :
                    PreferenceValue(users'[u].preferences, field) =
                        IF field \in dto.supplied
                        THEN <<dto[field]>>
                        ELSE PreferenceValue(users[u].preferences, field)]_vars

\* C20, amended: every supplied toggle (a supplied false included) and every
\* supplied non-empty language or currency takes the supplied value; every
\* omitted field, and a language or currency supplied as the empty string,
\* keeps the value it had; no other user's record changes.
C20_PartialMerge ==
    [][(authOp'.op = "updatePreferences" /\ authOp'.status = 200)
          => LET u == authOp'.actedOn
                 dto == authOp'.request
                 Overwrites(field) ==
                     /\ field \in dto.supplied
                     /\ field \in {"language", "currency"} => dto[field] # ""
             IN  /\ \A field \in PreferenceFields :
                        PreferenceValue(users'[u].preferences, field) =
                            IF Overwrites(field)
                            THEN <<dto[field]>>
                            ELSE PreferenceValue(users[u].preferences, field)
                 /\ \A v \in DOMAIN users : v # u => users'[v] = users[v]
                 /\ Len(users') = Len(users)]_vars

\* an update that supplied an empty language and a false email toggle and
\* omitted the currency: the language and the currency set by an earlier
\* update are still there and the toggle is off
C20_Witness ==
    /\ authOp.op = "updatePreferences"
    /\ authOp.status = 200
    /\ authOp.request.supplied = {"language", "emailNotifications"}
    /\ authOp.request.language = ""
    /\ ~authOp.request.emailNotifications
    /\ users[authOp.actedOn].preferences.language = "en"
    /\ users[authOp.actedOn].preferences.currency = "USD"
    /\ ~users[authOp.actedOn].preferences.notifications.email
    /\ Len(users) = 2

-----------------------------------------------------------------------------
(* Review claims, under SpecReview *)

\* C9: no two stored reviews reference the same booking, and creating a valid
\* review for a booking that already has one is answered 409, whoever asks, and
\* leaves the stored reviews unchanged.
C9_OneReviewPerBooking ==
    /\ [](\A i, j \in DOMAIN reviews : i # j => reviews[i].booking # reviews[j].booking)
    /\ [][( /\ reviewOp'.op = "create"
            /\ reviewOp'.valid
            /\ \E i \in DOMAIN reviews : reviews[i].booking = reviewOp'.booking )
          => reviewOp'.status = 409 /\ reviews' = reviews]_vars

\* a second review of a reviewed booking, by another user, was answered 409
C9_Witness ==
    /\ reviewOp.op = "create"
    /\ reviewOp.status = 409
    /\ \E i \in DOMAIN reviews :
           reviews[i].booking = reviewOp.booking /\ reviews[i].user # reviewOp.user

\* C10: after every save of a review, overall is the mean of the five
\* sub-ratings rounded to one decimal (in tenths: within half a tenth of sum/5),
\* whatever overall value the client supplied.
C10_OverallIsRoundedMean ==
    \A r \in DOMAIN reviews :
        LET sum == reviews[r].rating.value + reviews[r].rating.service
                   + reviews[r].rating.cleanliness + reviews[r].rating.location
                   + reviews[r].rating.communication
            diff == 5 * reviews[r].rating.overall - sum
        IN  2 * diff <= 5 /\ 2 * diff > -5

\* a review saved with a client-supplied overall of 3.0 whose mean has to be
\* rounded, and the ratings {4,5,3,5,4} stored with overall 4.2
C10_Witness ==
    /\ reviewOp.op \in {"create", "saveRating"}
    /\ reviewOp.status \in {200, 201}
    /\ reviewOp.overall = 30
    /\ reviews[reviewOp.review].rating.overall # 30
    /\ RatingSum(reviews[reviewOp.review].rating) % 5 # 0
    /\ \E r \in DOMAIN reviews :
           /\ reviews[r].rating = WithOverall(Ratings(40, 50, 30, 50, 40), 42)

-----------------------------------------------------------------------------
(* Claims about overlapping calls: C26 under SpecConcurrentPreferences, C29 *)
(* under SpecConcurrentFavorites *)

\* the one field a request of SingleFieldRequests changes
ChangedField(dto) == CHOOSE field \in PreferenceFields : field \in dto.supplied

\* the stored preferences of userId show the change the request asked for
HasChange(userId, dto) ==
    PreferenceValue(users[userId].preferences, ChangedField(dto))
        = <<dto[ChangedField(dto)]>>

\* C26: two concurrent updatePreferences calls for the same user, each changing
\* a different field, can interleave so that both return success and the
\* stored preferences contain only one of the two changes: a call that
\* finishes after another call has written, having read before that write,
\* answers success and puts the other call's field back to the value it read.
C26_LastWriterWins ==
    [][\A c, d \in CallIds :
          ( /\ c # d
            /\ calls[c].pc = "read" /\ calls'[c].pc = "done"
            /\ calls[d].pc = "done" /\ calls[d].status = 200
            /\ calls[d].userId = calls[c].userId
            /\ ChangedField(calls[d].request) # ChangedField(calls[c].request)
            /\ PreferenceValue(calls[c].snapshot.preferences,
                               ChangedField(calls[d].request))
                  # <<calls[d].request[ChangedField(calls[d].request)]>> )
          => /\ calls'[c].status = 200
             /\ calls'[d].status = 200
             /\ PreferenceValue(users'[calls[c].userId].preferences,
                                ChangedField(calls[d].request))
                  = PreferenceValue(calls[c].snapshot.preferences,
                                    ChangedField(calls[d].request))
             /\ PreferenceValue(users'[calls[c].userId].preferences,
                                ChangedField(calls[c].request))
                  = <<calls[c].request[ChangedField(calls[c].request)]>>]_vars

\* both calls have answered success, one asked for the language and the other
\* for the currency, and only the currency is stored
C26_Witness ==
    /\ \A c \in CallIds :
           /\ calls[c].pc = "done"
           /\ calls[c].op = "updatePreferences"
           /\ calls[c].status = 200
           /\ calls[c].userId = 1
    /\ ChangedField(calls[1].request) = "language"
    /\ ChangedField(calls[2].request) = "currency"
    /\ ~HasChange(1, calls[1].request)
    /\ HasChange(1, calls[2].request)

\* the entries of a user's stored favourites that name the destination
EntriesFor(userId, destinationId) ==
    { i \in DOMAIN users[userId].favoriteDestinations :
        users[userId].favoriteDestinations[i].destinationId = destinationId }

=============================================================================
